---------------------------- MODULE Spec2Model ----------------------------
(***************************************************************************)
(* A model of three components of the repository:                          *)
(*                                                                         *)
(*  - the Histogram class and the SummaryHistogram, SummaryScalar and      *)
(*    SummaryMerge kernels of contrib_ops/cpu/summary_op.cc;               *)
(*  - the DataLoader of test/training/runner/data_loader.cc: its           *)
(*    constructor, its preloading of shards and its reading of a file;     *)
(*  - GraphDefs::AddNodeDefs of core/graph/training/graph_augmenter.h.     *)
(*                                                                         *)
(* Doubles are modelled on an integer grid that keeps their order: one     *)
(* unit stands for the smallest positive bucket edge (1e-12), DblMax for   *)
(* std::numeric_limits<double>::max(), and three codes beyond the finite   *)
(* range for -inf, +inf and NaN.  The growth of the bucket edges (x 1.1 up *)
(* to 1e20) is modelled by an integer factor and a small limit.            *)
(***************************************************************************)
EXTENDS Integers, Sequences, FiniteSets

(***************************************************************************)
(* Bounds of the model.                                                    *)
(***************************************************************************)
\* stands for the 1e20 at which the growth of the default edges stops
BucketLimit == 2
\* the longest sequence of Add calls made on one Histogram
MaxAdds == 3
\* the largest number of elements of a kernel input tensor
MaxInput == 2
\* the largest number of shard files of a loader
MaxShards == 4
\* the largest max_num_files_preload
MaxPreload == 2
\* the largest number of calls of MoveToNextDataSet
MaxMoves == 3
\* the largest number of shard files that do not parse
MaxCorrupt == 1
\* the largest number of data files of a directory
MaxDirFiles == 4
\* the largest world_size, and the largest world_rank, of a constructor call
MaxWorld == 3
\* the largest number of tags, and of input elements, of SummaryScalar
MaxScalars == 2
\* the largest number of fields and input boundaries of the SummaryMerge inputs
MaxWire == 4
\* the largest number of tensor payloads and sample boundaries of a shard file
MaxFileLen == 5
\* the largest number of nodes handed to one GraphDefs
MaxNodeDefs == 3

(***************************************************************************)
(* The double grid.                                                        *)
(***************************************************************************)
\* the first default edge, 1e-12, is the unit of the grid
HistEps == 1
\* the factor between two consecutive default edges (1.1 in the source)
GrowthFactor == 2

DblMax == 2 * BucketLimit
PosInf == DblMax + 1
NegInf == 0 - (DblMax + 1)
NaN == DblMax + 2

FiniteValues == (0 - DblMax)..DblMax
Doubles == FiniteValues \cup {PosInf, NegInf, NaN}

\* std::isnan and std::isinf
IsNaN(value) == value = NaN
IsInf(value) == value \in {PosInf, NegInf}

NoProto == [written |-> FALSE]
NoSnap == [taken |-> FALSE]
NoOutput == [written |-> FALSE]
NoCall == [call |-> "none"]
NoEntry == [marker |-> "none"]

VARIABLES
  \* Histogram
  bucket_limits_, buckets_, min_, max_, num_, sum_, sum_squares_,
  hpc,        \* "ok", or "crashed" once undefined behaviour has ended the process
  addCalls,   \* the number of calls of Add made so far
  lastAdd,    \* <<>>, or <<r>>: the most recent call of Add, with its argument
              \* r.value and the bucket counts r.before it started from
  proto,      \* the HistogramProto most recently written by SerializeToProto
  snap,       \* the call that wrote proto: addCalls, buckets_ and the whole
              \* Histogram as they were when it started, and the record the
              \* call before it had written
  added,      \* the values handed to Add so far
  \* SummaryHistogramOp::ComputeImpl
  input, kpos, kstatus, koutput, kpc,
  \* DataLoader
  data_files_,             \* the shard files of this loader, as file ids
  max_num_files_preload_,
  active_file_index_,
  buffer_,                 \* the shard map: shard index -> "data" or "null"
  tasks,                   \* the closures handed to the thread pool, in order
  corrupt,                 \* the file ids whose content does not parse
  lpc,                     \* the caller: "constructed", then "preloaded"
  moves,                   \* the number of calls of MoveToNextDataSet so far
  returned,                \* what the caller's most recent call returned
  \* DataLoader::DataLoader
  dir_path,                \* the directory: file name -> kind of entry
  world_size,
  shard_paths,             \* rank -> how the constructor call for it ended
  \* SummaryScalarOp / SummaryMergeOp
  op,                      \* "scalar" or "merge"
  tags_,                   \* the tags attribute of SummaryScalar
  sinput,                  \* the input tensor of SummaryScalar
  minputs,                 \* the input tensors of SummaryMerge, as wire data
  mi,                      \* the number of SummaryMerge inputs consumed
  tags,                    \* the tags SummaryMerge has seen
  summary,                 \* the tensorboard::Summary under construction
  sstatus,                 \* the Status returned, "none" before that
  soutput,                 \* the output tensor
  spc,
  \* DataLoader::LoadFile, called by the closure of LoadAndRemoveInternalAsync
  file_samples,            \* the samples of the shard file, each a sequence of
                           \* tensor payloads
  samples_read,            \* the number of samples LoadFile has read
  file_data_set,           \* the samples added to the DataSet so far
  load_status,             \* the Status of LoadFile, "none" before it returns
  buffer_entry,            \* what the closure has handed to buffer_.Set
  fpc,
  \* GraphAugmenter::GraphDefs
  node_defs_,
  graph_initializers_,
  passed,                  \* the nodes handed to AddNodeDefs so far, in order
  gthrown                  \* a call of AddNodeDefs has ended in an exception

histVars == <<bucket_limits_, buckets_, min_, max_, num_, sum_, sum_squares_,
              hpc, addCalls, lastAdd, proto, snap, added>>
kernelVars == <<input, kpos, kstatus, koutput, kpc>>
loaderVars == <<data_files_, max_num_files_preload_, active_file_index_, buffer_,
                tasks, corrupt, lpc, moves, returned>>
partitionVars == <<dir_path, world_size, shard_paths>>
summaryVars == <<op, tags_, sinput, minputs, mi, tags, summary, sstatus, soutput, spc>>
loadFileVars == <<file_samples, samples_read, file_data_set, load_status,
                  buffer_entry, fpc>>
graphVars == <<node_defs_, graph_initializers_, passed, gthrown>>
vars == <<histVars, kernelVars, loaderVars, partitionVars, summaryVars,
          loadFileVars, graphVars>>

(***************************************************************************)
(* InitDefaultHistogramBuckets / DefaultHistogramBuckets.                  *)
(* C++ index j is TLA+ index j + 1.                                        *)
(***************************************************************************)
RECURSIVE GrowBuckets(_, _)
GrowBuckets(buckets, v) ==
  IF v < BucketLimit
    THEN GrowBuckets(Append(buckets, v), v * GrowthFactor)
    ELSE buckets

PositiveBuckets == Append(GrowBuckets(<<>>, HistEps), DblMax)

InitDefaultHistogramBuckets ==
  LET buckets == PositiveBuckets
      n == Len(buckets)
      \* std::vector<double> bucket_limits(buckets.size() * 2 + 1, 0.0)
      l0 == [j \in 1..(2 * n + 1) |-> 0]
      \* for i < n: bucket_limits[i] = -buckets[n - 1 - i]
      l1 == [j \in 1..(2 * n + 1) |->
               IF j - 1 < n THEN 0 - buckets[n - (j - 1)] ELSE l0[j]]
      \* bucket_limits[n] = 0
      l2 == [l1 EXCEPT ![n + 1] = 0]
      \* for i < n: bucket_limits[n + i] = buckets[i]
      l3 == [j \in 1..(2 * n + 1) |->
               IF j - 1 >= n /\ j - 1 - n < n THEN buckets[(j - 1 - n) + 1] ELSE l2[j]]
  IN l3

DefaultHistogramBuckets == InitDefaultHistogramBuckets

\* The sorted edge tables a caller hands to Histogram(limits), and the default.
CustomLimits == { <<0, 1, 2>>, <<0 - 2, 0 - 1, 1, 3>> }
EdgeChoices == {DefaultHistogramBuckets} \cup CustomLimits

(***************************************************************************)
(* std::upper_bound, as the standard library computes it: a bisection that *)
(* halves the window [first, first + len).  The result is a C++ index.     *)
(***************************************************************************)
RECURSIVE Bisect(_, _, _, _)
Bisect(limits, value, first, len) ==
  IF len > 0
    THEN LET half == len \div 2
             mid == first + half
         IN IF value < limits[mid + 1]
              THEN Bisect(limits, value, first, half)
              ELSE Bisect(limits, value, mid + 1, len - half - 1)
    ELSE first

UpperBound(limits, value) == Bisect(limits, value, 0, Len(limits))

\* std::upper_bound requires the range to be partitioned by (value < element).
Partitioned(limits, value) ==
  \A i, j \in 1..Len(limits) : (i < j /\ value < limits[i]) => value < limits[j]

(***************************************************************************)
(* Histogram::Add.  buckets_[bucket] with bucket = buckets_.size() is a    *)
(* write past the end of the vector, and upper_bound on a range that is    *)
(* not partitioned is undefined: either the process goes on (the write     *)
(* lands outside the vector, the bisection returns what it computes) or it *)
(* ends (a checked library, a corrupted heap).                             *)
(***************************************************************************)
Add(value) ==
  LET bucket == UpperBound(bucket_limits_, value)
      defined == bucket < Len(buckets_) /\ Partitioned(bucket_limits_, value)
  IN /\ min_' = IF value < min_ THEN value ELSE min_
     /\ max_' = IF value > max_ THEN value ELSE max_
     /\ num_' = num_ + 1
     /\ sum_' = sum_ + value
     /\ sum_squares_' = sum_squares_ + value * value
     /\ buckets_' = IF bucket < Len(buckets_)
                      THEN [buckets_ EXCEPT ![bucket + 1] = @ + 1]
                      ELSE buckets_
     /\ hpc' \in (IF defined THEN {"ok"} ELSE {"ok", "crashed"})
     /\ addCalls' = addCalls + 1
     /\ lastAdd' = <<[value |-> value, before |-> buckets_]>>
     /\ added' = added \cup {value}
     /\ UNCHANGED <<bucket_limits_, proto, snap>>

(***************************************************************************)
(* Histogram::SerializeToProto.                                            *)
(***************************************************************************)
\* the comparison with the last bucket written, turned around
MergeAfterNonEmpty(count, bucket) ==
  count = 0 /\ (Len(bucket) > 0 /\ bucket[Len(bucket)] # 0)

\* the test of the last bucket written alone
MergeAfterEmpty(count, bucket) ==
  Len(bucket) > 0 /\ bucket[Len(bucket)] = 0

\* line 123: the bucket is empty and so is the last bucket written
ShouldMerge(count, bucket) ==
  count = 0 /\ (Len(bucket) > 0 /\ bucket[Len(bucket)] = 0)

RECURSIVE MergeBuckets(_, _, _, _, _)
MergeBuckets(limits, counts, i, bucket, bucket_limit) ==
  IF i > Len(counts)
    THEN [bucket |-> bucket, bucket_limit |-> bucket_limit]
    ELSE IF ShouldMerge(counts[i], bucket)
      THEN MergeBuckets(limits, counts, i + 1, bucket,
                        [bucket_limit EXCEPT ![Len(bucket_limit)] = limits[i]])
      ELSE MergeBuckets(limits, counts, i + 1, Append(bucket, counts[i]),
                        Append(bucket_limit, limits[i]))

\* the record of an earlier call, handed to SerializeToProto again
ReusedRecord ==
  IF proto.written THEN [bucket |-> proto.bucket, bucket_limit |-> proto.bucket_limit]
                   ELSE [bucket |-> <<>>, bucket_limit |-> <<>>]

\* the HistogramProto handed to SerializeToProto holds no bucket yet
FreshRecord == [bucket |-> <<>>, bucket_limit |-> <<>>]

\* the members of the Histogram
HistogramState ==
  [bucket_limits |-> bucket_limits_, buckets |-> buckets_, min |-> min_,
   max |-> max_, num |-> num_, sum |-> sum_, sum_squares |-> sum_squares_]

\* what is noted of a call of SerializeToProto when it starts
Snapshot ==
  [taken |-> TRUE, addCalls |-> addCalls, buckets |-> buckets_,
   state |-> HistogramState,
   previous |-> IF snap.taken /\ snap.addCalls = addCalls THEN proto ELSE NoProto]

SerializeToProto ==
  LET m == MergeBuckets(bucket_limits_, buckets_, 1,
                        FreshRecord.bucket, FreshRecord.bucket_limit)
      \* Ensure we have at least one bucket.
      b == IF Len(m.bucket) = 0 THEN <<0>> ELSE m.bucket
      bl == IF Len(m.bucket) = 0 THEN <<DblMax>> ELSE m.bucket_limit
  IN [written |-> TRUE, max |-> max_, min |-> min_, num |-> num_, sum |-> sum_,
      sum_squares |-> sum_squares_, bucket |-> b, bucket_limit |-> bl]


(***************************************************************************)
(* The Histogram on its own: a fresh Histogram over the default or a       *)
(* custom edge table, finite values added to it, and SerializeToProto      *)
(* writing a fresh record.                                                 *)
(***************************************************************************)
FreshHistogram(limits) ==
  /\ bucket_limits_ = limits
  /\ buckets_ = [j \in 1..Len(limits) |-> 0]
  /\ min_ = DblMax
  /\ max_ = 0 - DblMax
  /\ num_ = 0
  /\ sum_ = 0
  /\ sum_squares_ = 0
  /\ hpc = "ok"
  /\ addCalls = 0
  /\ lastAdd = <<>>
  /\ proto = NoProto
  /\ snap = NoSnap
  /\ added = {}

KernelIdle ==
  /\ input = <<>>
  /\ kpos = 0
  /\ kstatus = "none"
  /\ koutput = NoOutput
  /\ kpc = "idle"

LoaderIdle ==
  /\ data_files_ = <<>>
  /\ max_num_files_preload_ = 0
  /\ active_file_index_ = 0
  /\ buffer_ = <<>>
  /\ tasks = <<>>
  /\ corrupt = {}
  /\ lpc = "none"
  /\ moves = 0
  /\ returned = NoCall

PartitionIdle ==
  /\ dir_path = <<>>
  /\ world_size = 1
  /\ shard_paths = <<>>

SummaryIdle ==
  /\ op = "none"
  /\ tags_ = <<>>
  /\ sinput = [type |-> "float", data |-> <<>>]
  /\ minputs = <<>>
  /\ mi = 0
  /\ tags = {}
  /\ summary = <<>>
  /\ sstatus = "none"
  /\ soutput = NoOutput
  /\ spc = "none"

LoadFileIdle ==
  /\ file_samples = <<>>
  /\ samples_read = 0
  /\ file_data_set = <<>>
  /\ load_status = "none"
  /\ buffer_entry = NoEntry
  /\ fpc = "none"

\* a GraphDefs as constructed: no node definition, no initializer
EmptyGraphDefs ==
  /\ node_defs_ = <<>>
  /\ graph_initializers_ = <<>>
  /\ passed = <<>>
  /\ gthrown = FALSE

InitHist ==
  /\ \E limits \in EdgeChoices : FreshHistogram(limits)
  /\ KernelIdle
  /\ LoaderIdle
  /\ PartitionIdle
  /\ SummaryIdle
  /\ LoadFileIdle
  /\ EmptyGraphDefs

HistAdd ==
  /\ hpc = "ok"
  /\ addCalls < MaxAdds
  /\ \E value \in FiniteValues : Add(value)
  /\ UNCHANGED <<kernelVars, loaderVars, partitionVars, summaryVars, loadFileVars, graphVars>>

HistSerialize ==
  /\ hpc = "ok"
  /\ proto' = SerializeToProto
  /\ snap' = Snapshot
  /\ UNCHANGED <<bucket_limits_, buckets_, min_, max_, num_, sum_, sum_squares_,
                 hpc, addCalls, lastAdd, added>>
  /\ UNCHANGED <<kernelVars, loaderVars, partitionVars, summaryVars, loadFileVars, graphVars>>

NextHist == HistAdd \/ HistSerialize

SpecHist == InitHist /\ [][NextHist]_vars

(***************************************************************************)
(* SummaryHistogramOp::ComputeImpl<double>: one step per iteration of the  *)
(* loop over the input, and one for what follows the loop.                 *)
(***************************************************************************)
RECURSIVE SeqsUpTo(_, _)
SeqsUpTo(S, n) ==
  IF n = 0 THEN {<<>>}
  ELSE LET shorter == SeqsUpTo(S, n - 1)
       IN shorter \cup {Append(s, x) : s \in {t \in shorter : Len(t) = n - 1}, x \in S}

InitKernel ==
  /\ FreshHistogram(DefaultHistogramBuckets)
  /\ input \in SeqsUpTo(Doubles, MaxInput)
  /\ kpos = 0
  /\ kstatus = "none"
  /\ koutput = NoOutput
  /\ kpc = "loop"
  /\ LoaderIdle
  /\ PartitionIdle
  /\ SummaryIdle
  /\ LoadFileIdle
  /\ EmptyGraphDefs

RejectsOnlyNaN(value) == IsNaN(value)

\* lines 174-175: the two ORT_RETURN_IF of the loop
Rejects(value) == IsNaN(value) \/ IsInf(value)

ComputeLoop ==
  /\ kpc = "loop"
  /\ kpos < Len(input)
  /\ LET value == input[kpos + 1]
     IN IF Rejects(value)
          THEN /\ kstatus' = "FAIL"
               /\ kpc' = "returned"
               /\ UNCHANGED <<kpos, histVars>>
          ELSE /\ Add(value)
               /\ kpos' = kpos + 1
               /\ kpc' = IF hpc' = "crashed" THEN "crashed" ELSE "loop"
               /\ UNCHANGED kstatus
  /\ UNCHANGED <<input, koutput, loaderVars, partitionVars, summaryVars, loadFileVars, graphVars>>

ComputeOutput ==
  /\ kpc = "loop"
  /\ kpos = Len(input)
  /\ proto' = SerializeToProto
  /\ snap' = Snapshot
  /\ koutput' = [written |-> TRUE, histo |-> proto']
  /\ kstatus' = "OK"
  /\ kpc' = "returned"
  /\ UNCHANGED <<bucket_limits_, buckets_, min_, max_, num_, sum_, sum_squares_,
                 hpc, addCalls, lastAdd, added>>
  /\ UNCHANGED <<input, kpos, loaderVars, partitionVars, summaryVars, loadFileVars, graphVars>>

NextKernel == ComputeLoop \/ ComputeOutput

SpecKernel == InitKernel /\ [][NextKernel]_vars


(***************************************************************************)
(* DataLoader.  The shard map (buffer_) and the thread pool are members    *)
(* whose classes the source under study does not hold: the map is a        *)
(* locked map from shard index to data set, the pool a queue served by     *)
(* ThreadPoolSize workers.                                                 *)
(***************************************************************************)
ThreadPoolSize == 2

NumShards == Len(data_files_)

BufferSet(buf, index, data_set) ==
  [k \in (DOMAIN buf) \cup {index} |-> IF k = index THEN data_set ELSE buf[k]]

BufferRemove(buf, index) ==
  [k \in (DOMAIN buf) \ {index} |-> buf[k]]

\* a null pointer for an index the map does not hold
BufferGet(buf, index) == IF index \in DOMAIN buf THEN buf[index] ELSE "null"

\* the shards held in memory: the entries of the map that hold a data set
Resident == {k \in DOMAIN buffer_ : buffer_[k] = "data"}

Min(a, b) == IF a < b THEN a ELSE b

InitLoader ==
  /\ FreshHistogram(DefaultHistogramBuckets)
  /\ KernelIdle
  /\ PartitionIdle
  /\ SummaryIdle
  /\ LoadFileIdle
  /\ EmptyGraphDefs
  /\ \E n \in 1..MaxShards : data_files_ = [j \in 1..n |-> j]
  /\ max_num_files_preload_ \in 1..MaxPreload
  /\ active_file_index_ = 0
  /\ buffer_ = <<>>
  /\ tasks = <<>>
  /\ corrupt \in {c \in SUBSET (1..MaxShards) :
                    c \subseteq 1..NumShards /\ Cardinality(c) <= MaxCorrupt}
  /\ lpc = "constructed"
  /\ moves = 0
  /\ returned = NoCall

\* the closure LoadAndRemoveInternalAsync hands to the pool
\* stored: what the closure has handed to buffer_.Set ("none": nothing yet);
\* removed: whether it has called buffer_.Remove
Task(index_to_load, need_remove, index_to_remove) ==
  [index_to_load |-> index_to_load, need_remove |-> need_remove,
   index_to_remove |-> index_to_remove, pc |-> "queued",
   stored |-> "none", removed |-> FALSE]

PreloadCountNoMin == max_num_files_preload_

\* line 75: the bound of the loop
PreloadCount == Min(max_num_files_preload_, NumShards)

InitialPreLoadAsync ==
  /\ lpc = "constructed"
  /\ tasks' = tasks \o [j \in 1..PreloadCount |-> Task(j - 1, FALSE, 0)]
  /\ lpc' = "preloaded"
  /\ returned' = [call |-> "InitialPreLoadAsync", status |-> "OK"]
  /\ UNCHANGED <<data_files_, max_num_files_preload_, active_file_index_, buffer_,
                 corrupt, moves>>
  /\ UNCHANGED <<histVars, kernelVars, partitionVars, summaryVars, loadFileVars, graphVars>>

IndexToLoadNoWrap(active, preload, n) == active + preload - 1

IndexToLoadOffByOne(active, preload, n) == (active + preload) % n

\* line 84
IndexToLoad(active, preload, n) == (active + preload - 1) % n

MoveToNextDataSet ==
  /\ lpc = "preloaded"
  /\ moves < MaxMoves
  /\ LET index_to_remove == active_file_index_
         next_active == (active_file_index_ + 1) % NumShards
         index_to_load == IndexToLoad(next_active, max_num_files_preload_, NumShards)
     IN /\ active_file_index_' = next_active
        /\ tasks' = Append(tasks, Task(index_to_load, TRUE, index_to_remove))
        \* LoadAndRemoveInternalAsync returns OK; the caller gets CurrentDataSet()
        /\ returned' = [call |-> "MoveToNextDataSet", status |-> "OK",
                        data_set |-> BufferGet(buffer_, next_active)]
  /\ moves' = moves + 1
  /\ UNCHANGED <<data_files_, max_num_files_preload_, buffer_, corrupt, lpc>>
  /\ UNCHANGED <<histVars, kernelVars, partitionVars, summaryVars, loadFileVars, graphVars>>

Busy == {t \in 1..Len(tasks) : tasks[t].pc \in {"running", "stored"}}

\* a free worker takes the closure at the head of the queue
TaskStart(t) ==
  /\ tasks[t].pc = "queued"
  /\ \A u \in 1..(t - 1) : tasks[u].pc # "queued"
  /\ Cardinality(Busy) < ThreadPoolSize
  /\ tasks' = [tasks EXCEPT ![t].pc = "running"]
  /\ UNCHANGED <<data_files_, max_num_files_preload_, active_file_index_, buffer_,
                 corrupt, lpc, moves, returned>>
  /\ UNCHANGED <<histVars, kernelVars, partitionVars, summaryVars, loadFileVars, graphVars>>

\* LoadFile: the status it returns for a shard file
LoadFile(file) == IF file \in corrupt THEN "FAIL" ELSE "OK"

StoresDataSetAnyway(status) == "data"

\* lines 99-104: what the closure hands to buffer_.Set
StoredValue(status) == IF status = "OK" THEN "data" ELSE "null"

\* lines 93-104: the range check, LoadFile and buffer_.Set
TaskLoad(t) ==
  /\ tasks[t].pc = "running"
  /\ IF tasks[t].index_to_load > NumShards - 1
       THEN /\ tasks' = [tasks EXCEPT ![t].pc = "done"]
            /\ UNCHANGED buffer_
       ELSE LET data_set == StoredValue(LoadFile(data_files_[tasks[t].index_to_load + 1]))
            IN /\ buffer_' = BufferSet(buffer_, tasks[t].index_to_load, data_set)
               /\ tasks' = [tasks EXCEPT
                              ![t].stored = data_set,
                              ![t].pc = IF tasks[t].need_remove THEN "stored" ELSE "done"]
  /\ UNCHANGED <<data_files_, max_num_files_preload_, active_file_index_,
                 corrupt, lpc, moves, returned>>
  /\ UNCHANGED <<histVars, kernelVars, partitionVars, summaryVars, loadFileVars, graphVars>>

RemoveBeforeSet(task) == task.need_remove /\ task.pc \in {"running", "stored"}

\* lines 108-110 follow the Set of lines 99-104
RemoveReady(task) == task.pc = "stored"

\* lines 108-110: buffer_.Remove
TaskRemove(t) ==
  /\ RemoveReady(tasks[t])
  /\ buffer_' = BufferRemove(buffer_, tasks[t].index_to_remove)
  /\ tasks' = [tasks EXCEPT ![t].removed = TRUE, ![t].pc = "done"]
  /\ UNCHANGED <<data_files_, max_num_files_preload_, active_file_index_,
                 corrupt, lpc, moves, returned>>
  /\ UNCHANGED <<histVars, kernelVars, partitionVars, summaryVars, loadFileVars, graphVars>>

NextLoader ==
  \/ InitialPreLoadAsync
  \/ MoveToNextDataSet
  \/ \E t \in 1..Len(tasks) : TaskStart(t)
  \/ \E t \in 1..Len(tasks) : TaskLoad(t)
  \/ \E t \in 1..Len(tasks) : TaskRemove(t)

SpecLoader == InitLoader /\ [][NextLoader]_vars

AllTasksDone == \A t \in 1..Len(tasks) : tasks[t].pc = "done"


(***************************************************************************)
(* DataLoader::DataLoader: the file list a loader keeps.  One directory is *)
(* read by the loaders of several ranks, each constructed with the same    *)
(* world_size.  File names are integers, ordered as the path strings are.  *)
(***************************************************************************)
\* lines 20-28: the entries LoopDir's callback keeps are the regular files
\* with the extension pb whose name does not start with a dot
DataFileNames(dir) == {f \in DOMAIN dir : dir[f] = "pb"}

\* line 32: std::sort
RECURSIVE SortFiles(_)
SortFiles(files) ==
  IF files = {} THEN <<>>
  ELSE LET least == CHOOSE f \in files : \A g \in files : f <= g
       IN <<least>> \o SortFiles(files \ {least})

GetAllDataFiles(dir) == SortFiles(DataFileNames(dir))

RankAboveSize(rank, size) == rank > size

\* line 57
RankOutOfRange(rank, size) == rank >= size

KeepsFromOne(cnt, size, rank) == (cnt + 1) % size = rank

\* line 63: (count++ % world_size) == world_rank, on the value before ++
Keeps(cnt, size, rank) == cnt % size = rank

\* lines 61-66: the loop over data_files_
RECURSIVE PartitionLoop(_, _, _, _, _)
PartitionLoop(files, cnt, partial, size, rank) ==
  IF cnt = Len(files) THEN partial
  ELSE PartitionLoop(files, cnt + 1,
                     IF Keeps(cnt, size, rank)
                       THEN Append(partial, files[cnt + 1])
                       ELSE partial,
                     size, rank)

\* lines 53-68: what the constructor leaves in data_files_, or that it threw
Constructed(dir, rank, size) ==
  LET all == GetAllDataFiles(dir)
  IN IF size > 1
       THEN IF RankOutOfRange(rank, size)
              THEN [thrown |-> TRUE, files |-> <<>>]
              ELSE [thrown |-> FALSE,
                    files |-> PartitionLoop(all, 0, <<>>, size, rank)]
       ELSE [thrown |-> FALSE, files |-> all]

InitPartition ==
  /\ FreshHistogram(DefaultHistogramBuckets)
  /\ KernelIdle
  /\ LoaderIdle
  /\ SummaryIdle
  /\ LoadFileIdle
  /\ EmptyGraphDefs
  /\ dir_path \in [1..MaxDirFiles -> {"absent", "pb", "other"}]
  /\ world_size \in 0..MaxWorld
  /\ shard_paths = <<>>

\* DataLoader(input_name_map, dir_path, max_num_files_preload, rank, world_size)
Construct(rank) ==
  /\ rank \notin DOMAIN shard_paths
  /\ shard_paths' = [r \in DOMAIN shard_paths \cup {rank} |->
                       IF r = rank THEN Constructed(dir_path, rank, world_size)
                                   ELSE shard_paths[r]]
  /\ UNCHANGED <<dir_path, world_size>>
  /\ UNCHANGED <<histVars, kernelVars, loaderVars, summaryVars, loadFileVars, graphVars>>

NextPartition == \E rank \in 0..MaxWorld : Construct(rank)

SpecPartition == InitPartition /\ [][NextPartition]_vars

(***************************************************************************)
(* SummaryScalarOp and SummaryMergeOp.  A tensorboard::Summary is a        *)
(* sequence of Value entries, each a tag and a payload; its serialized     *)
(* form is a sequence of fields, one value field for each entry.  Bytes    *)
(* that are no field of a Summary stand in the data as a junk field.       *)
(***************************************************************************)
TagNames == {"", "a", "b"}
Payloads == {0, 1}

\* std::numeric_limits<float>::max() on the grid of the doubles
FltMax == DblMax - 1

\* float(input_data[i]) for a double: beyond the range of float the
\* conversion rounds to an infinity
ToFloat(value) ==
  IF IsNaN(value) \/ IsInf(value) THEN value
  ELSE IF value > FltMax THEN PosInf
  ELSE IF value < 0 - FltMax THEN NegInf
  ELSE value

\* the elements a SummaryScalar input tensor is drawn from
ScalarValues == {0 - DblMax, 0, 1, FltMax, NaN}

InputData(type) ==
  IF type = "float" THEN {value \in ScalarValues : ToFloat(value) = value}
                    ELSE ScalarValues

ValueField(value) ==
  [kind |-> "value", tag |-> value.tag, simple_value |-> value.simple_value]

JunkField == [kind |-> "junk", tag |-> "", simple_value |-> 0]

\* the mark between the data of one input tensor and the next
InputBoundary == [kind |-> "boundary", tag |-> "", simple_value |-> 0]

Fields ==
  {ValueField([tag |-> t, simple_value |-> x]) : t \in TagNames, x \in Payloads}
    \cup {JunkField}

\* Summary::SerializeAsString
SerializeAsString(sum) == [k \in 1..Len(sum) |-> ValueField(sum[k])]

\* Summary::ParseFromString
ParseFromString(data) ==
  IF \E k \in 1..Len(data) : data[k].kind # "value"
    THEN [ok |-> FALSE, value |-> <<>>]
    ELSE [ok |-> TRUE,
          value |-> [k \in 1..Len(data) |->
                       [tag |-> data[k].tag, simple_value |-> data[k].simple_value]]]

\* the variadic inputs: the data of each input tensor, cut at the boundaries
RECURSIVE SplitInputs(_)
SplitInputs(wire) ==
  IF wire = <<>> THEN << <<>> >>
  ELSE LET rest == SplitInputs(Tail(wire))
       IN IF Head(wire) = InputBoundary
            THEN << <<>> >> \o rest
            ELSE << <<Head(wire)>> \o rest[1] >> \o Tail(rest)

InitScalar ==
  /\ op = "scalar"
  /\ tags_ \in SeqsUpTo(TagNames, MaxScalars)
  /\ \E type \in {"float", "double"} :
       \E data \in SeqsUpTo(InputData(type), MaxScalars) :
         sinput = [type |-> type, data |-> data]
  /\ minputs = <<>>
  /\ spc = "compute"

InitMerge ==
  /\ op = "merge"
  /\ tags_ = <<>>
  /\ sinput = [type |-> "float", data |-> <<>>]
  /\ \E wire \in SeqsUpTo(Fields \cup {InputBoundary}, MaxWire) :
       minputs = SplitInputs(wire)
  /\ spc = "loop"

InitSummary ==
  /\ FreshHistogram(DefaultHistogramBuckets)
  /\ KernelIdle
  /\ LoaderIdle
  /\ PartitionIdle
  /\ LoadFileIdle
  /\ EmptyGraphDefs
  /\ InitScalar \/ InitMerge
  /\ mi = 0
  /\ tags = {}
  /\ summary = <<>>
  /\ sstatus = "none"
  /\ soutput = NoOutput

SizeBelow(size, ntags) == size < ntags

\* line 54
SizeMismatch(size, ntags) == size # ntags

ScalarValueReversed(tagList, data, i) ==
  [tag |-> tagList[i], simple_value |-> ToFloat(data[Len(data) + 1 - i])]

\* lines 60-62: the entry for tags_[i], C++ index i - 1
ScalarValue(tagList, data, i) ==
  [tag |-> tagList[i], simple_value |-> ToFloat(data[i])]

\* SummaryScalarOp::ComputeImpl<T>
ScalarCompute ==
  /\ spc = "compute"
  /\ IF SizeMismatch(Len(sinput.data), Len(tags_))
       THEN /\ sstatus' = "FAIL"
            /\ UNCHANGED <<summary, soutput>>
       ELSE /\ summary' = [i \in 1..Len(tags_) |-> ScalarValue(tags_, sinput.data, i)]
            /\ soutput' = [written |-> TRUE, data |-> SerializeAsString(summary')]
            /\ sstatus' = "OK"
  /\ spc' = "returned"
  /\ UNCHANGED <<op, tags_, sinput, minputs, mi, tags>>
  /\ UNCHANGED <<histVars, kernelVars, loaderVars, partitionVars, loadFileVars, graphVars>>

NeverDuplicate(tag, seen) == FALSE

RejectsEmptyTag(tag, seen) == tag = "" \/ tag \in seen

\* line 207: !tag.empty() && !tags.insert(tag).second
DuplicateTag(tag, seen) == tag # "" /\ tag \in seen

PrependValue(sum, value) == <<value>> \o sum

\* line 210: *summary.add_value() = summary_value
AddValue(sum, value) == Append(sum, value)

\* lines 204-211: the loop over the values of one input
RECURSIVE MergeValues(_, _, _, _)
MergeValues(values, v, seen, sum) ==
  IF v = Len(values) THEN [dup |-> FALSE, tags |-> seen, summary |-> sum]
  ELSE LET summary_value == values[v + 1]
           tag == summary_value.tag
       IN IF DuplicateTag(tag, seen)
            THEN [dup |-> TRUE, tags |-> seen, summary |-> sum]
            ELSE MergeValues(values, v + 1,
                             IF tag # "" THEN seen \cup {tag} ELSE seen,
                             AddValue(sum, summary_value))

\* SummaryMergeOp::Compute: one iteration of the loop over the inputs
MergeInput ==
  /\ spc = "loop"
  /\ mi < Len(minputs)
  /\ LET input_summary == ParseFromString(minputs[mi + 1])
         merged == MergeValues(input_summary.value, 0, tags, summary)
     IN IF ~input_summary.ok
          THEN /\ sstatus' = "FAIL"
               /\ spc' = "returned"
               /\ UNCHANGED <<mi, tags, summary>>
          ELSE /\ tags' = merged.tags
               /\ summary' = merged.summary
               /\ IF merged.dup
                    THEN /\ sstatus' = "INVALID_ARGUMENT"
                         /\ spc' = "returned"
                         /\ UNCHANGED mi
                    ELSE /\ mi' = mi + 1
                         /\ UNCHANGED <<sstatus, spc>>
  /\ UNCHANGED <<op, tags_, sinput, minputs, soutput>>
  /\ UNCHANGED <<histVars, kernelVars, loaderVars, partitionVars, loadFileVars, graphVars>>

\* SummaryMergeOp::Compute: what follows the loop
MergeOutput ==
  /\ spc = "loop"
  /\ mi = Len(minputs)
  /\ soutput' = [written |-> TRUE, data |-> SerializeAsString(summary)]
  /\ sstatus' = "OK"
  /\ spc' = "returned"
  /\ UNCHANGED <<op, tags_, sinput, minputs, mi, tags, summary>>
  /\ UNCHANGED <<histVars, kernelVars, loaderVars, partitionVars, loadFileVars, graphVars>>

NextSummary == ScalarCompute \/ MergeInput \/ MergeOutput

SpecSummary == InitSummary /\ [][NextSummary]_vars

(***************************************************************************)
(* DataLoader::LoadFile and LoadOneSample, and the closure that calls      *)
(* LoadFile.  A shard file that opens is a sequence of samples, a sample a *)
(* sequence of tensor payloads: "tensor" parses and carries a name of the  *)
(* input map, "extra" parses and carries a name the map does not hold,     *)
(* "bad" does not parse.                                                   *)
(***************************************************************************)
TensorPayloads == {"tensor", "extra", "bad"}

\* where one sample of the file ends and the next begins
SampleEnd == "end"

\* the samples of a file, cut at the sample boundaries
RECURSIVE SplitSamples(_)
SplitSamples(content) ==
  IF content = <<>> THEN << <<>> >>
  ELSE LET rest == SplitSamples(Tail(content))
       IN IF Head(content) = SampleEnd
            THEN << <<>> >> \o rest
            ELSE << <<Head(content)>> \o rest[1] >> \o Tail(rest)

\* lines 138-158: the loop over the payloads of one sample
RECURSIVE ReadFeatures(_, _, _)
ReadFeatures(sample, k, features) ==
  IF k > Len(sample) THEN [status |-> "OK", features |-> features]
  ELSE IF sample[k] = "bad"
    \* tensor.ParseFromString(s) fails
    THEN [status |-> "FAIL", features |-> features]
    ELSE ReadFeatures(sample, k + 1,
                      IF sample[k] = "tensor" THEN Append(features, k) ELSE features)

\* DataLoader::LoadOneSample
LoadOneSample(sample) == ReadFeatures(sample, 1, <<>>)

NeverAborts(status) == FALSE

\* line 126: if (!s.IsOK())
AbortsOn(status) == status # "OK"

InitLoadFile ==
  /\ FreshHistogram(DefaultHistogramBuckets)
  /\ KernelIdle
  /\ LoaderIdle
  /\ PartitionIdle
  /\ SummaryIdle
  /\ EmptyGraphDefs
  /\ \E content \in SeqsUpTo(TensorPayloads \cup {SampleEnd}, MaxFileLen) :
       file_samples \in {<<>>, SplitSamples(content)}
  /\ samples_read = 0
  /\ file_data_set = <<>>
  /\ load_status = "none"
  /\ buffer_entry = NoEntry
  /\ fpc = "loop"

\* lines 124-129: one iteration of the loop of LoadFile
LoadFileSample ==
  /\ fpc = "loop"
  /\ samples_read < Len(file_samples)
  /\ LET s == LoadOneSample(file_samples[samples_read + 1])
     IN /\ samples_read' = samples_read + 1
        /\ file_data_set' = IF s.status = "OK"
                              \* line 160: data_set->AddData(features)
                              THEN Append(file_data_set, s.features)
                              ELSE file_data_set
        /\ IF AbortsOn(s.status)
             THEN load_status' = "FAIL" /\ fpc' = "returned"
             ELSE UNCHANGED <<load_status, fpc>>
  /\ UNCHANGED <<file_samples, buffer_entry>>
  /\ UNCHANGED <<histVars, kernelVars, loaderVars, partitionVars, summaryVars, graphVars>>

\* line 130: the end of the file
LoadFileEnd ==
  /\ fpc = "loop"
  /\ samples_read = Len(file_samples)
  /\ load_status' = "OK"
  /\ fpc' = "returned"
  /\ UNCHANGED <<file_samples, samples_read, file_data_set, buffer_entry>>
  /\ UNCHANGED <<histVars, kernelVars, loaderVars, partitionVars, summaryVars, graphVars>>

\* lines 99-104: the closure hands nullptr or the DataSet to buffer_.Set
LoadFileStore ==
  /\ fpc = "returned"
  /\ buffer_entry' = [marker |-> StoredValue(load_status),
                      data_set |-> IF StoredValue(load_status) = "data"
                                     THEN file_data_set ELSE <<>>]
  /\ fpc' = "stored"
  /\ UNCHANGED <<file_samples, samples_read, file_data_set, load_status>>
  /\ UNCHANGED <<histVars, kernelVars, loaderVars, partitionVars, summaryVars, graphVars>>

NextLoadFile == LoadFileSample \/ LoadFileEnd \/ LoadFileStore

SpecLoadFile == InitLoadFile /\ [][NextLoadFile]_vars

(***************************************************************************)
(* GraphAugmenter::GraphDefs::AddNodeDefs.  A NodeDef is modelled by its   *)
(* op_type, its output_args (every node has at least one) and, of its      *)
(* attributes, the tensor of the attribute "value" if it has one.          *)
(***************************************************************************)
kConstant == "Constant"

NoValue == [has_value |-> FALSE, t |-> 0]

AttributeChoices == {[has_value |-> TRUE, t |-> x] : x \in {1, 2}} \cup {NoValue}

NodeDefChoices ==
  {[op_type |-> kConstant, output_args |-> <<o>>, attributes |-> a] :
     o \in {"x", "y"}, a \in AttributeChoices}
    \cup {[op_type |-> type, output_args |-> <<"z">>, attributes |-> NoValue] :
            type \in {"Add", "Mul"}}

NeverConstant(node_def) == FALSE

\* line 100
IsConstant(node_def) == node_def.op_type = kConstant

\* lines 101-102: the tensor of the attribute "value", named after the
\* node's first output
Initializer(node_def) ==
  [name |-> node_def.output_args[1], t |-> node_def.attributes.t]

\* lines 98-107: the loop over node_defs; attributes.at("value") throws
\* std::out_of_range for a node without that attribute
RECURSIVE AddLoop(_, _, _, _)
AddLoop(node_defs, i, nodes, initializers) ==
  IF i > Len(node_defs)
    THEN [thrown |-> FALSE, node_defs_ |-> nodes, graph_initializers_ |-> initializers]
  ELSE IF IsConstant(node_defs[i])
    THEN IF node_defs[i].attributes.has_value
           THEN AddLoop(node_defs, i + 1, nodes,
                        Append(initializers, Initializer(node_defs[i])))
           ELSE [thrown |-> TRUE, node_defs_ |-> nodes,
                 graph_initializers_ |-> initializers]
    ELSE AddLoop(node_defs, i + 1, Append(nodes, node_defs[i]), initializers)

InitGraphDefs ==
  /\ FreshHistogram(DefaultHistogramBuckets)
  /\ KernelIdle
  /\ LoaderIdle
  /\ PartitionIdle
  /\ SummaryIdle
  /\ LoadFileIdle
  /\ EmptyGraphDefs

\* GraphDefs::AddNodeDefs(node_defs)
AddNodeDefs(node_defs) ==
  /\ ~gthrown
  /\ LET r == AddLoop(node_defs, 1, node_defs_, graph_initializers_)
     IN /\ node_defs_' = r.node_defs_
        /\ graph_initializers_' = r.graph_initializers_
        /\ gthrown' = r.thrown
  /\ passed' = passed \o node_defs
  /\ UNCHANGED <<histVars, kernelVars, loaderVars, partitionVars, summaryVars,
                 loadFileVars>>

NextGraphDefs ==
  \E node_defs \in SeqsUpTo(NodeDefChoices, MaxNodeDefs - Len(passed)) :
    node_defs # <<>> /\ AddNodeDefs(node_defs)

SpecGraphDefs == InitGraphDefs /\ [][NextGraphDefs]_vars

(***************************************************************************)
(* Properties.                                                             *)
(***************************************************************************)
RECURSIVE SumSeq(_)
SumSeq(s) == IF Len(s) = 0 THEN 0 ELSE s[1] + SumSeq(Tail(s))

IsDefaultHistogram == bucket_limits_ = DefaultHistogramBuckets

\* C1: for every sequence of finite values added to a fresh Histogram, the
\* count written by SerializeToProto is the number of Add calls, and the
\* bucket counts written by SerializeToProto sum to that count.
C1_CountAndBucketSum ==
  proto.written =>
    /\ proto.num = snap.addCalls
    /\ SumSeq(proto.bucket) = proto.num

\* C2: after InitialPreLoadAsync and max_num_files_preload_ calls of
\* MoveToNextDataSet, once every scheduled task has completed, the shard map
\* holds at most max_num_files_preload_ resident shards.
C2_WindowAfterDrain ==
  (lpc = "preloaded" /\ moves = max_num_files_preload_ /\ AllTasksDone)
    => Cardinality(Resident) <= max_num_files_preload_

\* C3: after InitialPreLoadAsync and max_num_files_preload_ calls of
\* MoveToNextDataSet, once every scheduled task has completed, the shard map
\* does not contain the first evicted index, 0.
C3_FirstEvictedGone ==
  (lpc = "preloaded" /\ moves = max_num_files_preload_ /\ AllTasksDone)
    => 0 \notin DOMAIN buffer_

\* C4: in every reachable state of the loader the number of resident shards
\* is at most max_num_files_preload_ + 1.
C4_OvershootByOne ==
  lpc # "none" => Cardinality(Resident) <= max_num_files_preload_ + 1

\* C5: with no Add call, SerializeToProto on a Histogram with the default
\* edges writes exactly one pair: count 0 with the largest finite edge.
C5_EmptyDefaultSerialization ==
  (proto.written /\ snap.addCalls = 0 /\ IsDefaultHistogram)
    => (proto.bucket = <<0>> /\ proto.bucket_limit = <<DblMax>>)

\* the positive edges negated and reversed, one zero edge, the positive edges
MirroredTable ==
  LET n == Len(PositiveBuckets)
  IN [j \in 1..n |-> 0 - PositiveBuckets[n + 1 - j]] \o <<0>> \o PositiveBuckets

Ascending(s) == \A j, k \in 1..Len(s) : j < k => s[j] < s[k]

\* C6: the default edge table is the positive edges negated and reversed,
\* then a single zero edge, then the positive edges, in ascending order.
C6_DefaultTableMirrored ==
  IsDefaultHistogram => (bucket_limits_ = MirroredTable /\ Ascending(bucket_limits_))

\* bucket i opens a pair of the output unless it and its predecessor are empty
StartsPair(counts, i) == i = 1 \/ counts[i] # 0 \/ counts[i - 1] # 0
PairOf(counts, i) == Cardinality({k \in 1..i : StartsPair(counts, k)})
EndsEmptyRun(counts, i) ==
  counts[i] = 0 /\ (i = Len(counts) \/ counts[i + 1] # 0)

\* C7: the output of SerializeToProto has no two consecutive pairs of count
\* zero: every run of consecutive empty buckets is written as one pair, whose
\* edge is the last edge of the run.
C7_EmptyRunsCollapsed ==
  proto.written =>
    /\ \A j \in 1..(Len(proto.bucket) - 1) :
         ~(proto.bucket[j] = 0 /\ proto.bucket[j + 1] = 0)
    /\ \A i \in 1..Len(snap.buckets) :
         EndsEmptyRun(snap.buckets, i) =>
           LET g == PairOf(snap.buckets, i)
           IN /\ g <= Len(proto.bucket)
              /\ proto.bucket[g] = 0
              /\ proto.bucket_limit[g] = bucket_limits_[i]

\* a run of two or more empty buckets between two buckets that hold values
C7_Witness ==
  /\ proto.written
  /\ \E i \in 1..(Len(snap.buckets) - 3) :
       /\ snap.buckets[i] # 0
       /\ snap.buckets[i + 1] = 0
       /\ snap.buckets[i + 2] = 0
       /\ snap.buckets[i + 3] # 0
  /\ Len(proto.bucket) < Len(snap.buckets)

\* C8: for a Histogram with the default edges, the edges of the pairs written
\* by SerializeToProto are strictly increasing in output order.
C8_EdgesIncreasing ==
  (proto.written /\ IsDefaultHistogram) => Ascending(proto.bucket_limit)

HasGreater(limits, value) == \E j \in 1..Len(limits) : limits[j] > value
FirstGreater(limits, value) ==
  CHOOSE j \in 1..Len(limits) :
    limits[j] > value /\ \A k \in 1..(j - 1) : ~(limits[k] > value)

\* C9: Add(v) increments the bucket at the position of the first edge
\* strictly greater than v, and no other bucket: a value equal to an edge
\* goes to the bucket after that edge.
C9_AddUpperBound ==
  (hpc = "ok" /\ lastAdd # <<>> /\ HasGreater(bucket_limits_, lastAdd[1].value))
    => \E r \in {lastAdd[1]} :
         buckets_ = [r.before EXCEPT ![FirstGreater(bucket_limits_, r.value)] = @ + 1]

HasNonFinite(s) == \E j \in 1..Len(s) : IsNaN(s[j]) \/ IsInf(s[j])

\* C10: the SummaryHistogram kernel never calls Add with a NaN or an
\* infinite value; if an input element is NaN or infinite, Compute returns a
\* failure and writes no output tensor.
C10_KernelRejectsNonFinite ==
  /\ lastAdd # <<>> => lastAdd[1].value \in FiniteValues
  /\ HasNonFinite(input) =>
       /\ ~koutput.written
       /\ kpc = "returned" => kstatus = "FAIL"

\* a finite element was added, then an infinite one made Compute fail
C10_Witness ==
  /\ kpc = "returned"
  /\ kstatus = "FAIL"
  /\ addCalls >= 1
  /\ kpos < Len(input)
  /\ IsInf(input[kpos + 1])
  /\ ~koutput.written

\* the shard file a closure loads does not parse
LoadsCorrupt(task) ==
  /\ task.index_to_load <= NumShards - 1
  /\ data_files_[task.index_to_load + 1] \in corrupt

\* C17: within the closure scheduled by one MoveToNextDataSet the eviction of
\* the previously active shard comes after the new shard's load result has
\* been stored in the shard map: no closure has removed without having stored.
C17_EvictAfterStore ==
  \A t \in 1..Len(tasks) : tasks[t].removed => tasks[t].stored # "none"

\* a closure of MoveToNextDataSet has stored, then removed
C17_Witness ==
  \E t \in 1..Len(tasks) :
    tasks[t].need_remove /\ tasks[t].removed /\ tasks[t].stored = "data"

\* C18: a shard load that fails inside a closure is not propagated: the
\* closure stores the null marker for that index, still performs its
\* eviction, and InitialPreLoadAsync and the scheduling call return OK.
C18_LoadFailureContained ==
  /\ \A t \in 1..Len(tasks) :
       LoadsCorrupt(tasks[t]) =>
         /\ tasks[t].stored \in {"none", "null"}
         /\ tasks[t].pc \in {"stored", "done"} => tasks[t].stored = "null"
         /\ (tasks[t].pc = "done" /\ tasks[t].need_remove) => tasks[t].removed
  /\ returned.call # "none" => returned.status = "OK"

\* a closure of MoveToNextDataSet whose load failed has run to its end
C18_Witness ==
  /\ \E t \in 1..Len(tasks) :
       /\ LoadsCorrupt(tasks[t])
       /\ tasks[t].need_remove
       /\ tasks[t].pc = "done"
       /\ tasks[t].stored = "null"
       /\ tasks[t].removed
  /\ returned.call = "MoveToNextDataSet"
  /\ returned.status = "OK"

\* C19: each MoveToNextDataSet takes the old active index a as the index to
\* evict, sets the active index to (a + 1) mod N, and schedules exactly one
\* closure, which loads (new active index + W - 1) mod N and evicts a.
C19_MoveSchedulesOne ==
  [][moves' = moves + 1 =>
       LET a == active_file_index_
           n == Len(data_files_)
           w == max_num_files_preload_
       IN /\ active_file_index_' = (a + 1) % n
          /\ Len(tasks') = Len(tasks) + 1
          /\ \A t \in 1..Len(tasks) : tasks'[t] = tasks[t]
          /\ tasks'[Len(tasks')].index_to_load = (((a + 1) % n) + w - 1) % n
          /\ tasks'[Len(tasks')].need_remove
          /\ tasks'[Len(tasks')].index_to_remove = a
          /\ tasks'[Len(tasks')].pc = "queued"]_vars

\* the active index has wrapped around to the first shard
C19_Witness ==
  /\ moves >= 2
  /\ active_file_index_ = 0
  /\ tasks[Len(tasks)].need_remove
  /\ tasks[Len(tasks)].index_to_remove = Len(data_files_) - 1

\* C20: InitialPreLoadAsync schedules exactly min(preload window, shard
\* count) closures, one load for each index from 0, and none of them removes
\* an entry of the shard map.
C20_PreloadSchedulesLoads ==
  lpc = "preloaded" =>
    LET p == Min(max_num_files_preload_, Len(data_files_))
    IN /\ {t \in 1..Len(tasks) : ~tasks[t].need_remove} = 1..p
       /\ Len(tasks) = p + moves
       /\ \A t \in 1..p : tasks[t].index_to_load = t - 1 /\ ~tasks[t].removed

\* the preload of two shards has run to its end
C20_Witness ==
  /\ lpc = "preloaded"
  /\ Len(tasks) >= 2
  /\ \A t \in 1..2 : ~tasks[t].need_remove /\ tasks[t].pc = "done" /\ ~tasks[t].removed
  /\ {0, 1} \subseteq DOMAIN buffer_

\* the position of a data file in the sorted list of the directory
PositionOf(f) == Cardinality({g \in DataFileNames(dir_path) : g < f})

FilesOf(rank) == {shard_paths[rank].files[i] : i \in 1..Len(shard_paths[rank].files)}

\* C15: for world_size W >= 1 the file lists of the loaders constructed with
\* ranks 0..W-1 partition the sorted list of the directory's data files: a
\* rank holds exactly the files whose position is its rank modulo W, in
\* ascending order, and once all W ranks are constructed every data file is
\* in exactly one of the lists.
C15_RanksPartition ==
  world_size >= 1 =>
    /\ \A r \in DOMAIN shard_paths :
         r < world_size =>
           LET sp == shard_paths[r].files
           IN /\ ~shard_paths[r].thrown
              /\ FilesOf(r) = {f \in DataFileNames(dir_path) :
                                 PositionOf(f) % world_size = r}
              /\ \A i \in 1..Len(sp) : \A j \in 1..Len(sp) : i < j => sp[i] < sp[j]
    /\ (0..(world_size - 1)) \subseteq DOMAIN shard_paths =>
         /\ \A f \in DataFileNames(dir_path) :
              Cardinality({r \in 0..(world_size - 1) : f \in FilesOf(r)}) = 1
         /\ \A r \in 0..(world_size - 1) : FilesOf(r) \subseteq DataFileNames(dir_path)

\* every rank of a world of at least two has constructed its loader over a
\* directory that holds more data files than ranks and an entry that is none
C15_Witness ==
  /\ world_size >= 2
  /\ (0..(world_size - 1)) \subseteq DOMAIN shard_paths
  /\ Cardinality(DataFileNames(dir_path)) > world_size
  /\ \E f \in DOMAIN dir_path : dir_path[f] = "other"

\* C16 as stated: the constructor fails whenever world_rank >= world_size.
C16_FailsWheneverRankOutOfRange ==
  \A r \in DOMAIN shard_paths : r >= world_size => shard_paths[r].thrown

\* C16: the constructor fails exactly when world_size > 1 and
\* world_rank >= world_size; with world_size <= 1 it does not look at
\* world_rank, does not fail, and keeps the whole sorted file list.
C16_FailsOnlyWhenPartitioning ==
  \A r \in DOMAIN shard_paths :
    /\ shard_paths[r].thrown <=> (world_size > 1 /\ r >= world_size)
    /\ world_size <= 1 => shard_paths[r].files = GetAllDataFiles(dir_path)

\* a constructor call with world_rank = world_size has thrown, in a world of
\* two or more
C16_Witness ==
  /\ world_size > 1
  /\ world_size \in DOMAIN shard_paths
  /\ shard_paths[world_size].thrown

\* the record of SummaryMerge input i, and whether every input is a record
EntriesOf(i) == ParseFromString(minputs[i]).value
InputsParse == \A i \in 1..Len(minputs) : ParseFromString(minputs[i]).ok

\* the places <<input, index>> of the entries of all the inputs
EntryPlaces ==
  UNION {{<<i, v>> : v \in 1..Len(EntriesOf(i))} : i \in 1..Len(minputs)}

EntryAt(place) == EntriesOf(place[1])[place[2]]

\* two different input records hold the same non-empty tag
SharedTag ==
  \E p \in EntryPlaces : \E q \in EntryPlaces :
    /\ p[1] # q[1]
    /\ EntryAt(p).tag # ""
    /\ EntryAt(p).tag = EntryAt(q).tag

\* no non-empty tag stands at two places of the inputs
TagsDistinct ==
  \A p \in EntryPlaces : \A q \in EntryPlaces :
    (p # q /\ EntryAt(p).tag # "") => EntryAt(p).tag # EntryAt(q).tag

\* the record in the output tensor
OutputEntries == ParseFromString(soutput.data).value

\* C11: SummaryMerge over input records fails with the duplicate-tag error
\* when two of the records hold the same non-empty tag, and succeeds when
\* all the non-empty tags of the inputs are distinct; the record it then
\* yields holds every entry of every input, as many times as the inputs do.
C11_MergeDuplicateTag ==
  (op = "merge" /\ spc = "returned" /\ InputsParse) =>
    /\ SharedTag => sstatus = "INVALID_ARGUMENT"
    /\ TagsDistinct =>
         /\ sstatus = "OK"
         /\ soutput.written
         /\ ParseFromString(soutput.data).ok
         /\ \A p \in EntryPlaces :
              Cardinality({k \in 1..Len(OutputEntries) : OutputEntries[k] = EntryAt(p)})
                = Cardinality({q \in EntryPlaces : EntryAt(q) = EntryAt(p)})
         /\ Len(OutputEntries) = Cardinality(EntryPlaces)

\* a merge of two or more records with two distinct non-empty tags and an
\* entry without a tag has succeeded
C11_Witness ==
  /\ op = "merge"
  /\ sstatus = "OK"
  /\ Len(minputs) >= 2
  /\ Cardinality(tags) = 2
  /\ \E p \in EntryPlaces : EntryAt(p).tag = ""

RECURSIVE ConcatEntries(_)
ConcatEntries(i) == IF i = 0 THEN <<>> ELSE ConcatEntries(i - 1) \o EntriesOf(i)

\* C12: the record of a successful SummaryMerge is the concatenation of the
\* entries of the inputs, the inputs in the order they were listed and the
\* entries of an input in that input's order.
C12_MergeKeepsOrder ==
  (op = "merge" /\ sstatus = "OK") =>
    /\ soutput.written
    /\ OutputEntries = ConcatEntries(Len(minputs))

\* a successful merge of two or more records whose first and last entries
\* differ, one of the records holding two entries
C12_Witness ==
  /\ op = "merge"
  /\ sstatus = "OK"
  /\ Len(minputs) >= 2
  /\ \E i \in 1..Len(minputs) : Len(EntriesOf(i)) >= 2
  /\ Len(OutputEntries) >= 3
  /\ OutputEntries[1] # OutputEntries[Len(OutputEntries)]

\* C13: a SummaryScalar whose tag count differs from its input element
\* count, and a SummaryMerge with a duplicate tag or an input that is no
\* summary record, return a failure status, and the output tensor is not
\* written: neither before the operation returns nor when it has failed.
C13_NoOutputOnFailure ==
  /\ (op = "scalar" /\ spc = "returned" /\ Len(tags_) # Len(sinput.data)) =>
       sstatus \notin {"none", "OK"}
  /\ (op = "merge" /\ spc = "returned" /\ (~InputsParse \/ ~TagsDistinct)) =>
       sstatus \notin {"none", "OK"}
  /\ (op \in {"scalar", "merge"} /\ sstatus # "OK") => soutput = NoOutput

\* a merge has failed on a duplicate tag with entries already merged
C13_Witness ==
  /\ op = "merge"
  /\ spc = "returned"
  /\ sstatus = "INVALID_ARGUMENT"
  /\ Len(summary) >= 2
  /\ soutput = NoOutput

\* C14 as stated: entry i holds input value i itself.
C14_ScalarPairsValues ==
  (op = "scalar" /\ spc = "returned") =>
    IF Len(sinput.data) = Len(tags_)
      THEN /\ sstatus = "OK"
           /\ soutput.written
           /\ Len(OutputEntries) = Len(tags_)
           /\ \A i \in 1..Len(tags_) :
                OutputEntries[i] = [tag |-> tags_[i], simple_value |-> sinput.data[i]]
      ELSE sstatus \notin {"none", "OK"}

\* C14: SummaryScalar with N tags and N input values produces exactly N
\* entries, entry i pairing tag i with input value i converted to float (a
\* double beyond the range of float becomes an infinity); it fails whenever
\* the number of tags differs from the number of input elements.
C14_ScalarPairsNarrowed ==
  (op = "scalar" /\ spc = "returned") =>
    IF Len(sinput.data) = Len(tags_)
      THEN /\ sstatus = "OK"
           /\ soutput.written
           /\ Len(OutputEntries) = Len(tags_)
           /\ \A i \in 1..Len(tags_) :
                /\ OutputEntries[i].tag = tags_[i]
                /\ OutputEntries[i].simple_value =
                     (IF sinput.data[i] \in (0 - FltMax)..FltMax \cup {NaN}
                        THEN sinput.data[i]
                        ELSE IF sinput.data[i] > 0 THEN PosInf ELSE NegInf)
      ELSE sstatus \notin {"none", "OK"}

\* a SummaryScalar over two doubles, one beyond the range of float and one
\* within it, has written its two entries
C14_Witness ==
  /\ op = "scalar"
  /\ sstatus = "OK"
  /\ sinput.type = "double"
  /\ Len(tags_) = 2
  /\ tags_[1] # tags_[2]
  /\ sinput.data[1] = 0 - DblMax
  /\ sinput.data[2] = 1
  /\ Len(OutputEntries) = 2

ChangedBuckets(before, after) == {j \in 1..Len(before) : after[j] # before[j]}

\* C22: after a non-empty sequence of Adds of finite values to a fresh
\* Histogram, min is the smallest value added, max the largest, count the
\* number of Adds, and the last Add has changed exactly one bucket count,
\* by +1.
C22_AddStatistics ==
  (hpc = "ok" /\ lastAdd # <<>>) =>
    /\ min_ \in added /\ \A v \in added : min_ <= v
    /\ max_ \in added /\ \A v \in added : v <= max_
    /\ num_ = addCalls
    /\ \E j \in 1..Len(buckets_) :
         /\ ChangedBuckets(lastAdd[1].before, buckets_) = {j}
         /\ buckets_[j] = lastAdd[1].before[j] + 1

\* C26: for every finite value handed to Add, on the default edges or on
\* custom edges, the bucket index Add computes is an index into the bucket
\* counts: it is less than the number of edges.
C26_BucketIndexValid ==
  lastAdd # <<>> => UpperBound(bucket_limits_, lastAdd[1].value) < Len(buckets_)

\* the pairs of a record that carry a count, and the buckets that hold one
RECURSIVE NonEmptyPairs(_, _, _)
NonEmptyPairs(counts, limits, i) ==
  IF i > Len(counts) THEN <<>>
  ELSE (IF counts[i] # 0 THEN <<[count |-> counts[i], limit |-> limits[i]]>>
                         ELSE <<>>)
         \o NonEmptyPairs(counts, limits, i + 1)

\* C27: the merging of SerializeToProto loses no bucket that holds values:
\* the pairs of the record with a non-zero count are, in order, the buckets
\* with a non-zero count, each with its own count and its own upper edge.
C27_MergeKeepsNonEmpty ==
  proto.written =>
    NonEmptyPairs(proto.bucket, proto.bucket_limit, 1)
      = NonEmptyPairs(snap.buckets, bucket_limits_, 1)

\* two buckets that hold values, the second after a run of empty buckets
\* that the record has merged
C27_Witness ==
  /\ proto.written
  /\ Len(NonEmptyPairs(snap.buckets, bucket_limits_, 1)) >= 2
  /\ \E i \in 3..Len(snap.buckets) :
       /\ snap.buckets[i] # 0
       /\ snap.buckets[i - 1] = 0
       /\ snap.buckets[i - 2] = 0
  /\ Len(proto.bucket) < Len(snap.buckets)

\* C24: when every shard load succeeds, after InitialPreLoadAsync and any
\* number of calls of MoveToNextDataSet, once every scheduled closure has
\* completed, the shard at the active index is resident in the shard map.
C24_ActiveResidentAfterDrain ==
  (lpc = "preloaded" /\ corrupt = {} /\ AllTasksDone) =>
    active_file_index_ \in Resident

\* C25: in every closure scheduled by MoveToNextDataSet the index to load
\* differs from the index to remove.
C25_LoadDiffersFromRemove ==
  \A t \in 1..Len(tasks) :
    tasks[t].need_remove => tasks[t].index_to_load # tasks[t].index_to_remove

\* C29: the active index and every index to load handed to a closure are in
\* 0..N-1, so no closure takes the early return of the range test: a closure
\* past its load has stored, and a completed closure of MoveToNextDataSet
\* has removed.
C29_IndicesInRange ==
  /\ active_file_index_ \in 0..(Len(data_files_) - 1)
  /\ \A t \in 1..Len(tasks) :
       /\ tasks[t].index_to_load \in 0..(Len(data_files_) - 1)
       /\ tasks[t].pc \in {"stored", "done"} => tasks[t].stored # "none"
       /\ (tasks[t].pc = "done" /\ tasks[t].need_remove) => tasks[t].removed

\* the closure of a call of MoveToNextDataSet that wrapped the index to load
\* around the end of the file list has completed
C29_Witness ==
  \E t \in 1..Len(tasks) :
    /\ tasks[t].need_remove
    /\ tasks[t].pc = "done"
    /\ tasks[t].removed
    /\ tasks[t].index_to_load < tasks[t].index_to_remove
    /\ max_num_files_preload_ >= 2

\* a non-empty tag stands twice in one input record
RepeatedInOneInput ==
  \E p \in EntryPlaces : \E q \in EntryPlaces :
    /\ p[1] = q[1]
    /\ p[2] # q[2]
    /\ EntryAt(p).tag # ""
    /\ EntryAt(p).tag = EntryAt(q).tag

\* the entries of a record that carry no tag
UntaggedEntries(entries) == SelectSeq(entries, LAMBDA e : e.tag = "")

\* C28: SummaryMerge keeps one set of tags for all its inputs: a non-empty
\* tag that stands twice in one input record makes the merge fail as one
\* that stands in two inputs does, entries with an empty tag are never a
\* reason to fail, and a successful merge copies all of them to the output.
C28_OneTagSet ==
  (op = "merge" /\ spc = "returned" /\ InputsParse) =>
    /\ (RepeatedInOneInput \/ SharedTag) => sstatus = "INVALID_ARGUMENT"
    /\ sstatus = "INVALID_ARGUMENT" => ~TagsDistinct
    /\ sstatus = "OK" =>
         UntaggedEntries(OutputEntries) = UntaggedEntries(ConcatEntries(Len(minputs)))

\* a merge over records with three entries without a tag, two of them in
\* one record, has succeeded
C28_Witness ==
  /\ op = "merge"
  /\ sstatus = "OK"
  /\ Len(UntaggedEntries(OutputEntries)) >= 3
  /\ \E i \in 1..Len(minputs) : Len(UntaggedEntries(EntriesOf(i))) >= 2
  /\ Len(minputs) >= 2

\* the samples of the file that hold a payload that does not parse
BadSamples ==
  {j \in 1..Len(file_samples) :
     \E k \in 1..Len(file_samples[j]) : file_samples[j][k] = "bad"}

FirstBadSample == CHOOSE j \in BadSamples : \A i \in BadSamples : j <= i

\* C23: LoadFile fails on a file that holds a tensor payload that does not
\* parse: it reads no sample beyond the first one that fails and returns an
\* error, and the closure that called it stores the null marker for the
\* shard and not the DataSet filled so far.
C23_LoadFileAbandons ==
  BadSamples # {} =>
    /\ samples_read <= FirstBadSample
    /\ Len(file_data_set) <= FirstBadSample - 1
    /\ fpc \in {"returned", "stored"} =>
         /\ load_status = "FAIL"
         /\ samples_read = FirstBadSample
    /\ fpc = "stored" =>
         /\ buffer_entry.marker = "null"
         /\ buffer_entry.data_set = <<>>

\* a file whose second sample does not parse, with a sample after it: the
\* closure has stored the null marker while the DataSet holds the first sample
C23_Witness ==
  /\ fpc = "stored"
  /\ BadSamples # {}
  /\ FirstBadSample = 2
  /\ Len(file_samples) >= 3
  /\ Len(file_data_set) = 1
  /\ buffer_entry.marker = "null"

ConstantsPassed == SelectSeq(passed, LAMBDA n : n.op_type = "Constant")
OthersPassed == SelectSeq(passed, LAMBDA n : n.op_type # "Constant")

=============================================================================
